---- MODULE Spec2Model ----
(***************************************************************************)
(* State-machine model of src/main.py (ShopLite, a Streamlit storefront):  *)
(* the per-session cart and order ledger in st.session_state, the cart     *)
(* functions (add_to_cart, remove_from_cart, update_qty, cart_totals,      *)
(* export_cart, import_cart) and one script run of main(): sidebar_cart,   *)
(* then the catalogue's add buttons, then orders_view.                     *)
(*                                                                         *)
(* Numbers.  A Python float that holds a decimal is modelled exactly as a  *)
(* record [u, e] standing for u * 10^-3 + e * 10^-11 with e >= 0 (u in     *)
(* thousandths, e a tail below pandas' 10-decimal JSON precision).  Values *)
(* that the code rounds to 2 decimals are integers in cents.               *)
(***************************************************************************)
EXTENDS Integers, Sequences, FiniteSets, TLC

\* ------------------------------------------------------------------ bounds
MaxQty    == 2      \* a line's quantity is never driven above this
MaxOrders == 1      \* checkouts per session

\* ------------------------------------------------- program constants
FreeShipFrom == 50      \* main.py:163  total >= 50
ShipCents    == 499     \* main.py:163  4.99
TaxDen       == 5       \* main.py:164  total * 0.2 = total / 5
NCatalog     == 60      \* main.py:59   range(1, 61)

Sessions == {1, 2}
None     == "None"      \* Python None, and also what str(None) returns

\* ------------------------------------------------------------- numbers
Dec(u, e) == [u |-> u, e |-> e]
Zero      == Dec(0, 0)
DecMul(d, n) == Dec(d.u * n, d.e * n)          \* float * int, n >= 0
DecAdd(a, b) == Dec(a.u + b.u, a.e + b.e)
DecOfCents(c) == Dec(c * 10, 0)
DecGE(d, n)  == d.u >= n * 1000                \* d >= n, n an integer
DecPos(d)    == d.u > 0 \/ (d.u = 0 /\ d.e > 0)  \* d > 0

\* round((u + eps) / den) to an integer, ties to even, where eps in [0,1)
\* is positive iff `more`; den is even.
RoundHalfEven(u, more, den) ==
  LET q == u \div den
      r == u % den
  IN  IF 2 * r > den THEN q + 1
      ELSE IF 2 * r < den THEN q
      ELSE IF more THEN q + 1
      ELSE IF q % 2 = 0 THEN q ELSE q + 1

\* Python round(x, 2), as cents
Round2(d) == RoundHalfEven(d.u, d.e > 0, 10)

\* --------------------------------------------------- Python dict (ordered)
\* A dict is the sequence of its [key, val] pairs in insertion order.
Has(d, k)  == \E i \in DOMAIN d : d[i].key = k
Idx(d, k)  == CHOOSE i \in DOMAIN d : d[i].key = k
Get(d, k)  == d[Idx(d, k)].val
\* d[k] = v : in place when k is present, appended otherwise
Put(d, k, v) ==
  IF Has(d, k) THEN [d EXCEPT ![Idx(d, k)] = [key |-> k, val |-> v]]
  ELSE Append(d, [key |-> k, val |-> v])
\* d.pop(k, None)
Pop(d, k) ==
  IF Has(d, k)
  THEN LET i == Idx(d, k)
       IN  SubSeq(d, 1, i - 1) \o SubSeq(d, i + 1, Len(d))
  ELSE d
\* the id -> (title, price, qty) mapping of a dict, order forgotten
Mapping(d) == {d[i] : i \in DOMAIN d}

\* ------------------------------------------------------------- catalogue
Digit == <<"0", "1", "2", "3", "4", "5", "6", "7", "8", "9">>
\* f"Produit {i:02d}"
ProductTitle(i) == "Produit " \o Digit[((i \div 10) % 10) + 1] \o Digit[(i % 10) + 1]
\* round(4.99 + (i * 1.75) % 65, 2)
ProductPrice(i) == DecOfCents(499 + ((i * 175) % 6500))
\* the columns of a catalogue row that add_to_cart reads
load_products == [i \in 1..NCatalog |->
                    [id |-> i, title |-> ProductTitle(i), price |-> ProductPrice(i)]]

\* ------------------------------------------------------------------ cart
Item(title, price, qty) == [title |-> title, price |-> price, qty |-> qty]

\* a variant that takes title and price from the catalogue row on every add
add_to_cart_price_refresh(cart, row, qty) ==
  IF qty <= 0 THEN cart
  ELSE IF Has(cart, row.id)
       THEN Put(cart, row.id, Item(row.title, row.price, Get(cart, row.id).qty + qty))
       ELSE Put(cart, row.id, Item(row.title, row.price, qty))

add_to_cart(cart, row, qty) ==
  IF qty <= 0 THEN cart
  ELSE IF Has(cart, row.id)
       THEN Put(cart, row.id, [Get(cart, row.id) EXCEPT !.qty = @ + qty])
       ELSE Put(cart, row.id, Item(row.title, row.price, qty))

remove_from_cart(cart, pid) == Pop(cart, pid)

\* a variant that stores a quantity of 0 instead of removing the line
update_qty_store_any(cart, pid, qty) ==
  IF qty < 0
  THEN [cart |-> remove_from_cart(cart, pid), exc |-> None,
        br |-> IF Has(cart, pid) THEN "removed" ELSE "absent"]
  ELSE IF Has(cart, pid)
       THEN [cart |-> Put(cart, pid, [Get(cart, pid) EXCEPT !.qty = qty]),
             exc |-> None, br |-> "set"]
       ELSE [cart |-> cart, exc |-> "KeyError", br |-> "KeyError"]

\* the cart afterwards, the exception raised if any, and the branch taken
update_qty(cart, pid, qty) ==
  IF qty <= 0
  THEN [cart |-> remove_from_cart(cart, pid), exc |-> None,
        br |-> IF Has(cart, pid) THEN "removed" ELSE "absent"]
  ELSE IF Has(cart, pid)
       THEN [cart |-> Put(cart, pid, [Get(cart, pid) EXCEPT !.qty = qty]),
             exc |-> None, br |-> "set"]
       ELSE [cart |-> cart, exc |-> "KeyError", br |-> "KeyError"]

\* ---------------------------------------------------------------- totals
RECURSIVE SumTotal(_, _)
\* total += item["price"] * item["qty"] over the first n lines
SumTotal(cart, n) ==
  IF n = 0 THEN Zero
  ELSE DecAdd(SumTotal(cart, n - 1), DecMul(cart[n].val.price, cart[n].val.qty))

RECURSIVE SumItems(_, _)
SumItems(cart, n) == IF n = 0 THEN 0 ELSE SumItems(cart, n - 1) + cart[n].val.qty

Shipping(total) ==
  IF DecGE(total, FreeShipFrom) THEN 0 ELSE IF DecPos(total) THEN ShipCents ELSE 0

\* round(total * 0.2, 2), in cents
Tax(total) == RoundHalfEven(total.u, total.e > 0, 10 * TaxDen)

cart_totals(cart) ==
  LET total    == SumTotal(cart, Len(cart))
      shipping == Shipping(total)
      tax      == Tax(total)
  IN  [n_items  |-> SumItems(cart, Len(cart)),
       subtotal |-> Round2(total),
       shipping |-> shipping,
       tax      |-> tax,
       grand    |-> Round2(DecAdd(total, DecOfCents(shipping + tax)))]

\* ---------------------------------------------------------------- export
\* rows.append({...}) for each line, in the dict's order
export_rows(cart) ==
  [i \in DOMAIN cart |->
     [id       |-> cart[i].key,
      title    |-> cart[i].val.title,
      price    |-> cart[i].val.price,
      qty      |-> cart[i].val.qty,
      subtotal |-> Round2(DecMul(cart[i].val.price, cart[i].val.qty))]]

\* pandas writes a float to JSON with 10 decimals (double_precision = 10):
\* the tail e, in units of 10^-11, is rounded to a multiple of 10.
JsonDouble(d) == Dec(d.u, 10 * RoundHalfEven(d.e, FALSE, 10))

\* df.to_json(path, orient="records", force_ascii=False): the file's text
to_json(rows) ==
  [fmt |-> "json",
   rows |-> [i \in DOMAIN rows |-> [rows[i] EXCEPT !.price = JsonDouble(@)]]]

\* df.to_csv(path, index=False): floats are written by repr, in full
to_csv(rows) == [fmt |-> "csv", rows |-> rows]

\* export_cart(fmt): the text written to cart.csv or cart.json, or None
\* (nothing written) for an empty cart
export_cart(cart, fmt) ==
  IF cart = <<>> THEN None
  ELSE IF fmt = "csv" THEN to_csv(export_rows(cart))
  ELSE to_json(export_rows(cart))

\* --------------------------------------------------- JSON values, Python casts
JInt(n)  == [t |-> "int",    i |-> n, s |-> "",  d |-> Zero]
JNum(x)  == [t |-> "num",    i |-> 0, s |-> "",  d |-> x]
JStr(x)  == [t |-> "str",    i |-> 0, s |-> x,   d |-> Zero]
JAbsent  == [t |-> "absent", i |-> 0, s |-> "",  d |-> Zero]   \* key not in the object

Ok(v)    == [ok |-> TRUE,  val |-> v, err |-> None]
Raise(m) == [ok |-> FALSE, val |-> 0, err |-> m]

IsDigitStr(s) == \E k \in DOMAIN Digit : Digit[k] = s
DigitVal(s)   == (CHOOSE k \in DOMAIN Digit : Digit[k] = s) - 1
Trunc(u)      == IF u >= 0 THEN u \div 1000 ELSE -((-u) \div 1000)

\* int(x); entry.get(k) is None for a missing key
py_int(v) ==
  CASE v.t = "int" -> Ok(v.i)
    [] v.t = "num" -> Ok(Trunc(v.d.u))
    [] v.t = "str" -> IF IsDigitStr(v.s) THEN Ok(DigitVal(v.s))
                      ELSE Raise("invalid literal for int() with base 10")
    [] OTHER       -> Raise("int() argument must be a string, a bytes-like object or a real number, not 'NoneType'")

\* float(x)
py_float(v) ==
  CASE v.t = "int" -> [ok |-> TRUE, val |-> Dec(v.i * 1000, 0), err |-> None]
    [] v.t = "num" -> [ok |-> TRUE, val |-> v.d, err |-> None]
    [] v.t = "str" -> IF IsDigitStr(v.s)
                      THEN [ok |-> TRUE, val |-> Dec(DigitVal(v.s) * 1000, 0), err |-> None]
                      ELSE [ok |-> FALSE, val |-> Zero, err |-> "could not convert string to float"]
    [] OTHER       -> [ok |-> FALSE, val |-> Zero,
                       err |-> "float() argument must be a string or a real number, not 'NoneType'"]

\* str(x): never raises (a float title is not among the payloads drawn)
py_str(v) ==
  CASE v.t = "str" -> v.s
    [] v.t = "int" /\ v.i \in 0..9 -> Digit[v.i + 1]
    [] v.t = "absent" -> None

\* ---------------------------------------------------------------- import
\* an uploaded file: text json.load rejects, a top-level value that is no
\* list, or a list of entries; an entry is an object (dict) or not
Garbage       == [kind |-> "garbage", entries |-> <<>>]
NotAList      == [kind |-> "object",  entries |-> <<>>]
JList(es)     == [kind |-> "list",    entries |-> es]
Obj(id, title, price, qty) ==
  [dict |-> TRUE, id |-> id, title |-> title, price |-> price, qty |-> qty]
NotAnObject   == [dict |-> FALSE, id |-> JAbsent, title |-> JAbsent,
                  price |-> JAbsent, qty |-> JAbsent]

\* json.load of a file this program exported
json_load(content) ==
  IF content.fmt = "json"
  THEN JList([i \in DOMAIN content.rows |->
                Obj(JInt(content.rows[i].id), JStr(content.rows[i].title),
                    JNum(content.rows[i].price), JInt(content.rows[i].qty))])
  ELSE Garbage

\* a variant that keeps every entry
KeepAnyQty(qty) == TRUE

\* if qty > 0:
KeepQty(qty) == qty > 0

Failed(acc, m) == [ok |-> FALSE, cart |-> acc, err |-> m]

RECURSIVE ParseEntries(_, _, _)
\* the loop of import_cart from entry k on, new_cart being acc
ParseEntries(entries, k, acc) ==
  IF k > Len(entries) THEN [ok |-> TRUE, cart |-> acc, err |-> None]
  ELSE
    LET en == entries[k] IN
    IF ~en.dict THEN Failed(acc, "object has no attribute 'get'")
    ELSE
      LET pid   == py_int(en.id)
          title == py_str(en.title)
          price == py_float(en.price)
          qty   == py_int(IF en.qty.t = "absent" THEN JInt(1) ELSE en.qty)
      IN  IF ~pid.ok THEN Failed(acc, pid.err)
          ELSE IF ~price.ok THEN Failed(acc, price.err)
          ELSE IF ~qty.ok THEN Failed(acc, qty.err)
          ELSE ParseEntries(entries, k + 1,
                 IF KeepQty(qty.val)
                 THEN Put(acc, pid.val, Item(title, price.val, qty.val))
                 ELSE acc)

\* the try block of import_cart: ok, new_cart so far, str(e)
import_parse(payload) ==
  CASE payload.kind = "garbage" -> Failed(<<>>, "Expecting value: line 1 column 1 (char 0)")
    [] payload.kind = "object"  ->
         Failed(<<>>, "Format inattendu (JSON doit etre une liste d'articles)")
    [] OTHER -> ParseEntries(payload.entries, 1, <<>>)

\* a variant that installs new_cart as far as it was built
CartAfterImport_partial(old, r) == r.cart

\* new_cart replaces st.session_state.cart only at the end of the try block
CartAfterImport(old, r) == IF r.ok THEN r.cart ELSE old

\* ------------------------------------------------------- inputs drawn
Widget   == JStr("Widget")
Gadget   == JStr("Gadget")
Ten      == JNum(Dec(10000, 0))

\* the uploaded files the model draws from
Payloads == <<
  (*  1 *) Garbage,
  (*  2 *) NotAList,
  (*  3 *) JList(<<Obj(JInt(1), Widget, Ten, JInt(2))>>),
  (*  4 *) JList(<<Obj(JInt(1), Widget, Ten, JInt(0)),
                   Obj(JInt(2), Gadget, Ten, JInt(-1))>>),
  (*  5 *) JList(<<Obj(JInt(1), Widget, Ten, JInt(1)),
                   Obj(JInt(2), Gadget, JAbsent, JInt(1))>>),
  (*  6 *) JList(<<Obj(JInt(1), Widget, Ten, JInt(1)),
                   Obj(JInt(2), Gadget, Ten, JAbsent)>>),
  (*  7 *) JList(<<Obj(JAbsent, Widget, Ten, JInt(1))>>),
  (*  8 *) JList(<<Obj(JInt(1), JAbsent, Ten, JInt(1))>>),
  (*  9 *) JList(<<Obj(JInt(2), Gadget, JNum(Dec(49996, 0)), JAbsent)>>),
  (* 10 *) JList(<<Obj(JInt(2), Gadget, JNum(Dec(-1000, 0)), JInt(1))>>),
  (* 11 *) JList(<<Obj(JInt(1), Widget, JNum(Dec(4, 0)), JInt(1))>>),
  (* 12 *) JList(<<Obj(JStr("abc"), Widget, Ten, JInt(1))>>),
  (* 13 *) JList(<<Obj(JStr("2"), JInt(5), JStr("2"), JStr("2"))>>),
  (* 14 *) JList(<<Obj(JInt(1), Widget, JNum(Dec(10000, 3)), JInt(1))>>),
  (* 15 *) JList(<<NotAnObject>>)
>>

Form(name, email, address, agree, click) ==
  [name |-> name, email |-> email, address |-> address, agree |-> agree, click |-> click]
NoForm == Form("", "", "", FALSE, FALSE)
\* the values of the payment widgets and whether the button was clicked
Forms == { Form("Ada", "ada@example.org", "1 rue de la Paix", TRUE, TRUE),
           Form("",    "ada@example.org", "1 rue de la Paix", TRUE, TRUE),
           Form("Ada", "",                "1 rue de la Paix", TRUE, TRUE),
           Form("Ada", "ada@example.org", "",                 TRUE, TRUE),
           Form("Ada", "ada@example.org", "1 rue de la Paix", FALSE, TRUE),
           Form("Ada", "ada@example.org", "1 rue de la Paix", TRUE, FALSE) }

Rows == {1}                     \* catalogue rows whose button is clicked
Ids  == {1, 2, 3}               \* product ids passed to the cart functions
Qtys == (-1)..MaxQty            \* quantities passed to the cart functions

\* ----------------------------------------------------------------- state
VARIABLES
  cart,        \* st.session_state.cart of each session
  orders,      \* st.session_state.orders of each session
  import_err,  \* st.session_state.import_err of each session
  files,       \* cart.csv and cart.json in the working directory, shared
  pc,          \* where each session's script run stands
  local,       \* sidebar_cart's local `cart`: the session's dict or a replaced one
  dl,          \* data= handed to the two download buttons in this run
  last         \* the step just taken: who, what, and the branch it took

vars == <<cart, orders, import_err, files, pc, local, dl, last>>

NoFile  == [fmt |-> "none", rows |-> <<>>]     \* no such file yet
NoBytes == [fmt |-> "bytes", rows |-> <<>>]    \* b""
NoData  == [csv |-> NoFile, json |-> NoFile]   \* the button is not rendered yet
Same    == [same |-> TRUE, val |-> <<>>]       \* `cart` is st.session_state.cart

Step(op, s, p, f, br) == [op |-> op, s |-> s, p |-> p, form |-> f, br |-> br]

\* init_state(), for every session
Init ==
  /\ cart = [s \in Sessions |-> <<>>]
  /\ orders = [s \in Sessions |-> <<>>]
  /\ import_err = [s \in Sessions |-> None]
  /\ files = [csv |-> NoFile, json |-> NoFile]
  /\ pc = [s \in Sessions |-> "start"]
  /\ local = [s \in Sessions |-> Same]
  /\ dl = [s \in Sessions |-> NoData]
  /\ last = Step("init", 0, 0, NoForm, "")

\* the dict the local variable `cart` of sidebar_cart refers to
LocalCart(s) == IF local[s].same THEN cart[s] ELSE local[s].val

\* ---------------------------------------------------------------- sidebar
\* sidebar_cart starts: cart = st.session_state.cart; an empty cart renders
\* only the notice and the run goes on to the catalogue
SidebarStart(s) ==
  /\ pc[s] = "start"
  /\ local' = [local EXCEPT ![s] = Same]
  /\ dl' = [dl EXCEPT ![s] = NoData]
  /\ pc' = [pc EXCEPT ![s] = IF cart[s] = <<>> THEN "catalog" ELSE "lines"]
  /\ last' = Step("start", s, 0, NoForm, "")
  /\ UNCHANGED <<cart, orders, import_err, files>>

\* update_qty(pid, qty), called where the lines loop calls it, with any id
\* and quantity; an uncaught KeyError ends the run
UpdateQty(s, pid, qty) ==
  /\ pc[s] = "lines"
  /\ LET r == update_qty(cart[s], pid, qty) IN
       /\ cart' = [cart EXCEPT ![s] = r.cart]
       /\ pc' = [pc EXCEPT ![s] = IF r.exc = None THEN "lines" ELSE "start"]
       /\ last' = Step("update_qty", s, 0, NoForm, r.br)
  /\ UNCHANGED <<orders, import_err, files, local, dl>>

\* the "Retirer" button: remove_from_cart(pid), then st.rerun()
Retirer(s, pid) ==
  /\ pc[s] = "lines"
  /\ cart' = [cart EXCEPT ![s] = remove_from_cart(cart[s], pid)]
  /\ pc' = [pc EXCEPT ![s] = "start"]
  /\ last' = Step("remove", s, 0, NoForm, IF Has(cart[s], pid) THEN "present" ELSE "absent")
  /\ UNCHANGED <<orders, import_err, files, local, dl>>

\* a variant that also empties the ledger
ViderAll(s) ==
  /\ pc[s] = "lines"
  /\ cart' = [cart EXCEPT ![s] = <<>>]
  /\ orders' = [orders EXCEPT ![s] = <<>>]
  /\ pc' = [pc EXCEPT ![s] = "start"]
  /\ last' = Step("clear", s, 0, NoForm, "")
  /\ UNCHANGED <<import_err, files, local, dl>>

\* the "Vider le panier" button: a fresh empty dict, then st.rerun()
Vider(s) ==
  /\ pc[s] = "lines"
  /\ cart' = [cart EXCEPT ![s] = <<>>]
  /\ pc' = [pc EXCEPT ![s] = "start"]
  /\ last' = Step("clear", s, 0, NoForm, "")
  /\ UNCHANGED <<orders, import_err, files, local, dl>>

\* export_cart(fmt) writes its file; the caller is about to open it
ExportWrite(s, fmt) ==
  /\ pc[s] = (IF fmt = "csv" THEN "lines" ELSE "json_write")
  /\ LocalCart(s) # <<>>
  /\ cart[s] # <<>>
  /\ files' = [files EXCEPT ![fmt] = export_cart(cart[s], fmt)]
  /\ pc' = [pc EXCEPT ![s] = IF fmt = "csv" THEN "csv_read" ELSE "json_read"]
  /\ last' = Step("export_write", s, 0, NoForm, fmt)
  /\ UNCHANGED <<cart, orders, import_err, local, dl>>

\* open(path, "rb").read(): the data handed to the download button
ExportRead(s, fmt) ==
  /\ pc[s] = (IF fmt = "csv" THEN "csv_read" ELSE "json_read")
  /\ dl' = [dl EXCEPT ![s][fmt] = files[fmt]]
  /\ pc' = [pc EXCEPT ![s] = IF fmt = "csv" THEN "json_write" ELSE "import"]
  /\ last' = Step("export_read", s, 0, NoForm, fmt)
  /\ UNCHANGED <<cart, orders, import_err, files, local>>

\* the lines loop emptied the dict: both buttons get b"" and are disabled
NoExport(s) ==
  /\ pc[s] = "lines"
  /\ LocalCart(s) = <<>>
  /\ dl' = [dl EXCEPT ![s] = [csv |-> NoBytes, json |-> NoBytes]]
  /\ pc' = [pc EXCEPT ![s] = "import"]
  /\ last' = Step("no_export", s, 0, NoForm, "")
  /\ UNCHANGED <<cart, orders, import_err, files, local>>

\* import_cart(file) on the uploaded payload; on success the session gets a
\* new dict while the local `cart` keeps the old one
Import(s, payload, p) ==
  /\ pc[s] = "import"
  /\ LET r == import_parse(payload) IN
       /\ cart' = [cart EXCEPT ![s] = CartAfterImport(cart[s], r)]
       /\ import_err' = [import_err EXCEPT ![s] = IF r.ok THEN None ELSE r.err]
       /\ local' = [local EXCEPT ![s] =
                      IF r.ok THEN [same |-> FALSE, val |-> LocalCart(s)] ELSE @]
       /\ last' = Step("import", s, p, NoForm, IF r.ok THEN "ok" ELSE "failed")
  /\ pc' = [pc EXCEPT ![s] = "pay"]
  /\ UNCHANGED <<orders, files, dl>>

\* the uploader holds one of the payloads
ImportCart(s, p) == Import(s, Payloads[p], p)

\* the uploader holds the JSON file this run offered for download
ImportExported(s) ==
  /\ dl[s].json.fmt = "json"
  /\ Import(s, json_load(dl[s].json), 0)

\* file is None
NoUpload(s) ==
  /\ pc[s] = "import"
  /\ pc' = [pc EXCEPT ![s] = "pay"]
  /\ last' = Step("no_upload", s, 0, NoForm, "")
  /\ UNCHANGED <<cart, orders, import_err, files, local, dl>>

\* {"id": pid, **item} for each line of st.session_state.cart
Items(c) == [i \in DOMAIN c |->
               [id |-> c[i].key, title |-> c[i].val.title,
                price |-> c[i].val.price, qty |-> c[i].val.qty]]

\* the receipt without its two clock readings (ts, order_id)
Receipt(f, c) ==
  [name |-> f.name, email |-> f.email, address |-> f.address,
   items |-> Items(c), totals |-> cart_totals(c)]

\* can_pay = bool(cart) and name and email and address and agree
can_pay(c, f) == c # <<>> /\ f.name # "" /\ f.email # "" /\ f.address # "" /\ f.agree

\* the payment block; a disabled button is never clicked; sidebar_cart returns
Pay(s, f) ==
  /\ pc[s] = "pay"
  /\ IF f.click /\ can_pay(LocalCart(s), f)
     THEN /\ Len(orders[s]) < MaxOrders
          /\ orders' = [orders EXCEPT ![s] = Append(@, Receipt(f, cart[s]))]
          /\ cart' = [cart EXCEPT ![s] = <<>>]
          /\ last' = Step("pay", s, 0, f, "paid")
     ELSE /\ UNCHANGED <<cart, orders>>
          /\ last' = Step("pay", s, 0, f, "")
  /\ local' = [local EXCEPT ![s] = Same]
  /\ pc' = [pc EXCEPT ![s] = "catalog"]
  /\ UNCHANGED <<import_err, files, dl>>

\* -------------------------------------------------- catalogue and orders
\* an "Ajouter au panier" button of render_product_card
AddToCart(s, i, qty) ==
  /\ pc[s] = "catalog"
  /\ LET row == load_products[i] IN
       /\ (IF Has(cart[s], row.id) THEN Get(cart[s], row.id).qty ELSE 0) + qty <= MaxQty
       /\ cart' = [cart EXCEPT ![s] = add_to_cart(cart[s], row, qty)]
       /\ last' = Step("add", s, 0, NoForm,
                       IF qty <= 0 THEN "ignored"
                       ELSE IF Has(cart[s], row.id) THEN "incremented" ELSE "inserted")
  /\ UNCHANGED <<orders, import_err, files, pc, local, dl>>

RECURSIVE Reverse(_)
Reverse(q) == IF q = <<>> THEN <<>> ELSE Append(Reverse(Tail(q)), Head(q))

\* orders_view: what is shown, and the ledger afterwards
orders_view(ledger) == [shown |-> Reverse(ledger), ledger |-> ledger]

\* the orders tab is rendered and main() returns
OrdersView(s) ==
  /\ pc[s] = "catalog"
  /\ orders' = [orders EXCEPT ![s] = orders_view(@).ledger]
  /\ pc' = [pc EXCEPT ![s] = "start"]
  /\ last' = Step("orders_view", s, 0, NoForm, "")
  /\ UNCHANGED <<cart, import_err, files, local, dl>>

\* ------------------------------------------------------- specifications
Valid   == Form("Ada", "ada@example.org", "1 rue de la Paix", TRUE, TRUE)
Unclick == Form("Ada", "ada@example.org", "1 rue de la Paix", TRUE, FALSE)

Fmts    == {"csv", "json"}

\* one session, every operation, carts of one line
Next ==
  \/ SidebarStart(1)
  \/ \E pid \in {1, 2}, qty \in Qtys : UpdateQty(1, pid, qty)
  \/ \E pid \in {1, 2} : Retirer(1, pid)
  \/ Vider(1)
  \/ \E fmt \in Fmts : ExportWrite(1, fmt)
  \/ \E fmt \in Fmts : ExportRead(1, fmt)
  \/ NoExport(1)
  \/ \E p \in {1, 2, 3, 4, 5} : ImportCart(1, p)
  \/ NoUpload(1)
  \/ \E f \in Forms : Pay(1, f)
  \/ \E i \in Rows, qty \in Qtys : AddToCart(1, i, qty)
  \/ OrdersView(1)

Spec == Init /\ [][Next]_vars

\* one session, carts of two lines: an imported cart that the catalogue's
\* button then adds to
NextAdd ==
  \/ SidebarStart(1)
  \/ \E pid \in Ids : Retirer(1, pid)
  \/ Vider(1)
  \/ \E fmt \in Fmts : ExportWrite(1, fmt)
  \/ \E fmt \in Fmts : ExportRead(1, fmt)
  \/ ImportCart(1, 6)
  \/ NoUpload(1)
  \/ \E f \in {Valid, Unclick} : Pay(1, f)
  \/ \E i \in Rows, qty \in Qtys : AddToCart(1, i, qty)
  \/ OrdersView(1)

SpecAdd == Init /\ [][NextAdd]_vars

\* one session, every payload, the exported file uploaded again; no checkout
NextImport ==
  \/ SidebarStart(1)
  \/ \E pid \in {1, 2}, qty \in {0, 2} : UpdateQty(1, pid, qty)
  \/ \E pid \in {1, 2} : Retirer(1, pid)
  \/ Vider(1)
  \/ \E fmt \in Fmts : ExportWrite(1, fmt)
  \/ \E fmt \in Fmts : ExportRead(1, fmt)
  \/ NoExport(1)
  \/ \E p \in DOMAIN Payloads : ImportCart(1, p)
  \/ ImportExported(1)
  \/ NoUpload(1)
  \/ Pay(1, Unclick)
  \/ \E i \in Rows : AddToCart(1, i, 1)
  \/ OrdersView(1)

SpecImport == Init /\ [][NextImport]_vars

\* two sessions, each script run on its own thread, steps interleaved
NextSessions ==
  \E s \in Sessions :
    \/ SidebarStart(s)
    \/ Vider(s)
    \/ \E fmt \in Fmts : ExportWrite(s, fmt)
    \/ \E fmt \in Fmts : ExportRead(s, fmt)
    \/ NoUpload(s)
    \/ \E f \in {Valid, Unclick} : Pay(s, f)
    \/ \E i \in Rows : AddToCart(s, i, 1)
    \/ OrdersView(s)

SpecSessions == Init /\ [][NextSessions]_vars

\* ----------------------------------------------------------------- claims
IsPrefix(a, b) == Len(a) <= Len(b) /\ SubSeq(b, 1, Len(a)) = a
Line(c, pid)   == IF Has(c, pid) THEN Get(c, pid) ELSE None

\* C1: in every reachable state, whatever quantities (zero and negative
\* ones included) were passed or imported, every line present in a cart has
\* quantity > 0.
C1_QtyPositive ==
  \A s \in Sessions : \A i \in DOMAIN cart[s] : cart[s][i].val.qty > 0

\* C1 witness: a file whose entries carry qty 0 and -1 was just imported.
C1_Witness ==
  last.op = "import" /\ last.p = 4 /\ last.br = "ok" /\ import_err[1] = None

\* C2 (as claimed): an order is appended only from a non-empty cart with
\* name, email, address non-empty and the terms agreed; it is exactly one
\* order, holding the cart's lines with their ids and Totals of that cart;
\* the cart is empty afterwards; the Widget cart gives 20.00/4.99/4.00/28.99.
C2_Checkout ==
  [][\A s \in Sessions :
       orders'[s] # orders[s] =>
         LET f == last'.form IN
         /\ cart[s] # <<>>
         /\ f.name # "" /\ f.email # "" /\ f.address # "" /\ f.agree
         /\ orders'[s] = Append(orders[s],
                           [name |-> f.name, email |-> f.email, address |-> f.address,
                            items |-> [i \in DOMAIN cart[s] |->
                                         [id |-> cart[s][i].key,
                                          title |-> cart[s][i].val.title,
                                          price |-> cart[s][i].val.price,
                                          qty |-> cart[s][i].val.qty]],
                            totals |-> cart_totals(cart[s])])
         /\ cart'[s] = <<>>
         /\ (Mapping(cart[s]) = {[key |-> 1, val |-> Item("Widget", Dec(10000, 0), 2)]}
               => LET t == orders'[s][Len(orders'[s])].totals IN
                  t.subtotal = 2000 /\ t.shipping = 499 /\ t.tax = 400 /\ t.grand = 2899)
    ]_vars

C4_FailedImport ==
  [][(last'.op = "import" /\ last'.p \in {1, 2, 5}) =>
       /\ cart' = cart
       /\ orders' = orders
       /\ import_err'[last'.s] \notin {None, ""}
    ]_vars

\* C4 witness: the file whose second entry has no price was just uploaded
\* over a cart with a line in it.
C4_Witness ==
  last.op = "import" /\ last.p = 5 /\ cart[1] # <<>> /\ import_err[1] # None

\* C9 (as claimed): on an id absent from the cart, remove_from_cart and
\* update_qty with any qty raise nothing and leave the cart unchanged, and
\* update_qty(id, 0) has the outcome of remove_from_cart(id) for any id.
C9_AbsentIgnored ==
  \A s \in Sessions : \A pid \in Ids :
    /\ ~Has(cart[s], pid) =>
         /\ remove_from_cart(cart[s], pid) = cart[s]
         /\ \A qty \in Qtys :
              /\ update_qty(cart[s], pid, qty).exc = None
              /\ update_qty(cart[s], pid, qty).cart = cart[s]
    /\ update_qty(cart[s], pid, 0).exc = None
    /\ update_qty(cart[s], pid, 0).cart = remove_from_cart(cart[s], pid)

\* C9 (amended): on an absent id, remove_from_cart and update_qty with
\* qty <= 0 raise nothing and leave the cart unchanged, update_qty with
\* qty > 0 raises KeyError and leaves the cart unchanged; update_qty(id, 0)
\* has the outcome of remove_from_cart(id) for any id, present or not.
C9_AbsentAmended ==
  \A s \in Sessions : \A pid \in Ids :
    /\ ~Has(cart[s], pid) =>
         /\ remove_from_cart(cart[s], pid) = cart[s]
         /\ \A qty \in Qtys :
              /\ update_qty(cart[s], pid, qty).exc = (IF qty > 0 THEN "KeyError" ELSE None)
              /\ update_qty(cart[s], pid, qty).cart = cart[s]
    /\ update_qty(cart[s], pid, 0).exc = None
    /\ update_qty(cart[s], pid, 0).cart = remove_from_cart(cart[s], pid)
    /\ (last.op = "update_qty" /\ last.br = "KeyError" => pc[last.s] = "start")

\* C9 witness: update_qty was called with qty > 0 on an id the cart, which
\* has a line, does not hold.
C9_Witness ==
  last.op = "update_qty" /\ last.br = "KeyError" /\ cart[1] # <<>>

\* what add_to_cart returns on the cart of any reachable state, for any
\* quantity drawn
C8_StateAdd ==
  \A s \in Sessions : \A i \in Rows : \A qty \in Qtys :
    LET c   == cart[s]
        row == load_products[i]
        r   == add_to_cart(c, row, qty)
    IN  /\ qty <= 0 => r = c
        /\ (qty > 0 /\ Has(c, row.id)) =>
             Line(r, row.id) = Item(Get(c, row.id).title, Get(c, row.id).price,
                                    Get(c, row.id).qty + qty)
        /\ (qty > 0 /\ ~Has(c, row.id)) =>
             Line(r, row.id) = Item(ProductTitle(i), ProductPrice(i), qty)
        /\ \A pid \in Ids \ {row.id} : Line(r, pid) = Line(c, pid)
        /\ \A k \in DOMAIN r : r[k].key \in {row.id} \cup {c[j].key : j \in DOMAIN c}

\* what a step of the add button changes
C8_FrameAdd ==
  last'.op = "add" =>
    /\ orders' = orders
    /\ \A s \in Sessions \ {last'.s} : cart'[s] = cart[s]
    /\ \E i \in Rows, qty \in Qtys : cart'[last'.s] = add_to_cart(cart[last'.s], load_products[i], qty)
    /\ (last'.br = "ignored" => cart' = cart)
    /\ (last'.br = "incremented" =>
          \E pid \in Ids :
            /\ Has(cart[last'.s], pid) /\ Has(cart'[last'.s], pid)
            /\ Get(cart'[last'.s], pid).title = Get(cart[last'.s], pid).title
            /\ Get(cart'[last'.s], pid).price = Get(cart[last'.s], pid).price
            /\ Get(cart'[last'.s], pid).qty > Get(cart[last'.s], pid).qty)

\* C8: add_to_cart with qty <= 0 changes nothing; with qty > 0 it adds qty
\* to a present line, keeping the line's stored title and price (also when
\* they differ from the product's, after an import), or inserts the
\* product's title and price with quantity qty; the other lines, the ledger
\* and the other session are as before.
C8_AddToCart == [](C8_StateAdd) /\ [][C8_FrameAdd]_vars

\* C8 witness: the button of product 1 just added to an imported line whose
\* title is not the product's, with another line and an order present.
C8_Witness ==
  /\ last.op = "add" /\ last.br = "incremented"
  /\ Has(cart[1], 1) /\ Get(cart[1], 1).title = "Widget" /\ Get(cart[1], 1).qty = 2
  /\ Has(cart[1], 2)
  /\ orders[1] # <<>>

\* C5 (as claimed): import reports an error and keeps the cart whenever the
\* top-level value is no list, or an entry lacks id, title or price, or has
\* an id that does not parse; a missing qty alone is tolerated (it is 1).
C5_ImportRejects ==
  [][(last'.op = "import" =>
        /\ last'.p \in {2, 5, 7, 8, 12} =>
             /\ import_err'[last'.s] # None
             /\ cart'[last'.s] = cart[last'.s]
        /\ last'.p = 9 =>
             /\ import_err'[last'.s] = None
             /\ Mapping(cart'[last'.s]) =
                  {[key |-> 2, val |-> Item("Gadget", Dec(49996, 0), 1)]})
    ]_vars

\* C6 (as claimed): the returned totals satisfy
\* grand = round(subtotal + shipping + tax, 2), and shipping is 0 when the
\* returned subtotal is >= 50.00 or is 0, and 4.99 otherwise.
C6_TotalsInvariant ==
  \A s \in Sessions :
    LET t == cart_totals(cart[s]) IN
    /\ t.grand = t.subtotal + t.shipping + t.tax
    /\ t.shipping = (IF t.subtotal >= 5000 \/ t.subtotal = 0 THEN 0 ELSE 499)

\* C7 (as claimed): uploading the JSON file exported from a non-empty cart
\* gives a cart with the same id -> (title, price, qty) mapping; an empty
\* cart has no export.
C7_RoundTrip ==
  [][(last'.op = "import" /\ last'.p = 0) =>
       /\ import_err'[last'.s] = None
       /\ Mapping(cart'[last'.s]) = Mapping(cart[last'.s])
       /\ \A fmt \in Fmts : export_cart(<<>>, fmt) = None
    ]_vars

\* C10 (as claimed): with two sessions interleaved, a session's cart and
\* ledger change only in that session's own steps, and the data a session
\* reads back for a download button is the export of its own cart.
C10_Isolation ==
  [][/\ \A s \in Sessions :
          (cart'[s] # cart[s] \/ orders'[s] # orders[s]) => last'.s = s
     /\ last'.op = "export_read" =>
          dl'[last'.s][last'.br] = export_cart(cart[last'.s], last'.br)
    ]_vars

====
